---- MODULE Spec2Model ----
(***************************************************************************)
(* Model of deploy_nim_sagemaker.py: the deployment of two NVIDIA NIM      *)
(* JumpStart models to SageMaker endpoints.                                *)
(*                                                                         *)
(* main() resolves the two model versions, calls deploy_model() for the    *)
(* reasoning model and then for the embedding model, collects the          *)
(* EndpointInfo records that come back and writes nim_endpoints.json.      *)
(* Every call to an external service (JumpStart catalogue, SageMaker) is   *)
(* one step whose outcome the environment chooses: it returns, or it       *)
(* raises an exception of some class.  Strings are TLA+ strings; a         *)
(* character of s is SubSeq(s, i, i).                                      *)
(***************************************************************************)
EXTENDS Integers, Sequences, FiniteSets, TLC

VARIABLES
    pc,            \* position of main()
    region,        \* session.boto_region_name
    llm_version,   \* main's local llm_version ("" while unbound)
    embed_version, \* main's local embed_version ("" while unbound)
    frame,         \* the activation of deploy_model: arguments, endpoint_name, step
    ret,           \* value returned by the last deploy_model call: None or Some(info)
    llm_endpoint,  \* main's local llm_endpoint
    embed_endpoint,\* main's local embed_endpoint
    endpoints,     \* main's list endpoints
    summary,       \* the contents written to nim_endpoints.json, one per write
    exit_code,     \* outcome of the process, Running until it ends
    calls,         \* record of the external calls issued, in order
    live           \* endpoint names the platform reported live (model.deploy returned)

vars == <<pc, region, llm_version, embed_version, frame, ret, llm_endpoint,
          embed_endpoint, endpoints, summary, exit_code, calls, live>>

-----------------------------------------------------------------------------
(* Bounds of the model *)

NumVersions == 3

Min(a, b) == IF a <= b THEN a ELSE b

\* Version strings the catalogue may recommend: short, with underscores, and
\* long enough that the endpoint name of either model is truncated.
VersionPool ==
    << "1.0.0",
       "2.1.0_rc_1",
       "1.0.0_build_2024_11_05_x86",
       "0.9.3",
       "3_0" >>

Versions == { VersionPool[i] : i \in 1..Min(NumVersions, Len(VersionPool)) }

Regions == { "us-east-1", "eu-west-1" }

-----------------------------------------------------------------------------
(* Module-level constants of the script *)

NEMOTRON_MODEL_ID == "nvidia-nemotron-nano-8b-nim"
EMBED_MODEL_ID == "nvidia-llama3-2-nv-embedqa-1b-v2-nim"

LLM_INSTANCE == "ml.g5.2xlarge"
EMBED_INSTANCE == "ml.g5.xlarge"

LLM_PREFIX == "mindbridge-llm"
EMBED_PREFIX == "mindbridge-embed"

\* endpoint_name[:63]
AWS_NAME_LIMIT == 63

\* exit status of the interpreter: 0 when the script runs to its end, 1 when
\* an exception reaches the top level
EXIT_OK == 0
EXIT_UNCAUGHT == 1
Running == -1

-----------------------------------------------------------------------------
(* Optional[EndpointInfo] *)

None == << >>
Some(x) == << x >>

\* truth value of an Optional[EndpointInfo] in `if llm_endpoint:`: an
\* EndpointInfo instance is truthy, None is falsy
Truthy(opt) == opt # None

-----------------------------------------------------------------------------
(* EndpointInfo *)

EndpointFields ==
    { "model_id", "model_version", "endpoint_name", "instance_type", "region" }

EndpointInfo(model_id, model_version, endpoint_name, instance_type, reg) ==
    [ model_id |-> model_id,
      model_version |-> model_version,
      endpoint_name |-> endpoint_name,
      instance_type |-> instance_type,
      region |-> reg ]

\* the property endpoint_url: computed from the fields, not stored
endpoint_url(info) ==
    "https://runtime.sagemaker." \o info.region \o ".amazonaws.com/"
        \o "endpoints/" \o info.endpoint_name \o "/invocations"

\* as InstanceDict, with the computed URL among the entries
InstanceDictWithUrl(info) ==
    [ k \in EndpointFields \cup { "endpoint_url" } |->
        IF k = "endpoint_url" THEN endpoint_url(info) ELSE info[k] ]

\* endpoint.__dict__: the instance attributes, keyed by name
InstanceDict(info) == [ k \in EndpointFields |-> info[k] ]

\* [endpoint.__dict__ for endpoint in endpoints]
DumpList(eps) == [ i \in 1..Len(eps) |-> InstanceDict(eps[i]) ]

-----------------------------------------------------------------------------
(* Endpoint naming *)

RECURSIVE ReplaceUnderscores(_)
\* str.replace("_", "-")
ReplaceUnderscores(s) ==
    IF s = "" THEN ""
    ELSE (IF SubSeq(s, 1, 1) = "_" THEN "-" ELSE SubSeq(s, 1, 1))
             \o ReplaceUnderscores(SubSeq(s, 2, Len(s)))

\* as Truncate, keeping one character more: s[:n + 1]
TruncateOffByOne(s, n) == SubSeq(s, 1, Min(n + 1, Len(s)))

\* s[:n]
Truncate(s, n) == SubSeq(s, 1, Min(n, Len(s)))

EndpointName(endpoint_prefix, model_id, model_version) ==
    Truncate(ReplaceUnderscores(endpoint_prefix \o "-" \o model_id \o "-" \o model_version),
             AWS_NAME_LIMIT)

-----------------------------------------------------------------------------
(* Exceptions *)

\* classes of the exceptions an external call raises: botocore's ClientError
\* and some other subclass of Exception
FaultKinds == { "ClientError", "ValueError" }

Outcomes == { "ok" } \cup FaultKinds

IsInstance(kind, cls) ==
    \/ cls = kind
    \/ cls = "Exception" /\ kind \in { "ClientError", "ValueError" }

\* as Handler, without the clause `except Exception`
HandlerClientErrorOnly(kind) ==
    IF IsInstance(kind, "ClientError") THEN "aws_error"
    ELSE "propagate"

\* the except clauses of deploy_model: which one takes an exception of this
\* kind, "propagate" when none does
Handler(kind) ==
    IF IsInstance(kind, "ClientError") THEN "aws_error"
    ELSE IF IsInstance(kind, "Exception") THEN "unexpected_error"
    ELSE "propagate"

-----------------------------------------------------------------------------
(* State *)

Idle == [ model_id |-> "", model_version |-> "", instance_type |-> "",
          endpoint_prefix |-> "", endpoint_name |-> "", step |-> "idle" ]

Call(op, model_id, arg, out) ==
    [ op |-> op, model_id |-> model_id, arg |-> arg, out |-> out ]

Init ==
    /\ pc = "resolve_llm"
    /\ region \in Regions
    /\ llm_version = ""
    /\ embed_version = ""
    /\ frame = Idle
    /\ ret = None
    /\ llm_endpoint = None
    /\ embed_endpoint = None
    /\ endpoints = << >>
    /\ summary = << >>
    /\ exit_code = Running
    /\ calls = << >>
    /\ live = {}

-----------------------------------------------------------------------------
(* resolve_model_version, as main calls it; an exception of get_model_specs  *)
(* is caught nowhere and ends the process                                    *)

ResolveLlm ==
    /\ pc = "resolve_llm"
    /\ \E out \in Outcomes :
         /\ calls' = Append(calls, Call("get_model_specs", NEMOTRON_MODEL_ID, region, out))
         /\ IF out = "ok"
            THEN /\ \E v \in Versions : llm_version' = v
                 /\ pc' = "resolve_embed"
                 /\ exit_code' = exit_code
            ELSE /\ llm_version' = llm_version
                 /\ pc' = "crashed"
                 /\ exit_code' = EXIT_UNCAUGHT
    /\ UNCHANGED <<region, embed_version, frame, ret, llm_endpoint, embed_endpoint,
                   endpoints, summary, live>>

\* as ResolveEmbed, with a failed lookup survived and the version left empty
ResolveEmbedTolerant ==
    /\ pc = "resolve_embed"
    /\ \E out \in Outcomes :
         /\ calls' = Append(calls, Call("get_model_specs", EMBED_MODEL_ID, region, out))
         /\ IF out = "ok"
            THEN \E v \in Versions : embed_version' = v
            ELSE embed_version' = ""
         /\ pc' = "deploy_llm"
         /\ endpoints' = << >>
         /\ exit_code' = exit_code
    /\ UNCHANGED <<region, llm_version, frame, ret, llm_endpoint, embed_endpoint,
                   summary, live>>

ResolveEmbed ==
    /\ pc = "resolve_embed"
    /\ \E out \in Outcomes :
         /\ calls' = Append(calls, Call("get_model_specs", EMBED_MODEL_ID, region, out))
         /\ IF out = "ok"
            THEN /\ \E v \in Versions : embed_version' = v
                 /\ pc' = "deploy_llm"
                 /\ endpoints' = << >>
                 /\ exit_code' = exit_code
            ELSE /\ embed_version' = embed_version
                 /\ pc' = "crashed"
                 /\ endpoints' = endpoints
                 /\ exit_code' = EXIT_UNCAUGHT
    /\ UNCHANGED <<region, llm_version, frame, ret, llm_endpoint, embed_endpoint,
                   summary, live>>

-----------------------------------------------------------------------------
(* deploy_model *)

\* entry of deploy_model: the arguments are bound and endpoint_name is computed
Enter(model_id, model_version, instance_type, endpoint_prefix) ==
    [ model_id |-> model_id,
      model_version |-> model_version,
      instance_type |-> instance_type,
      endpoint_prefix |-> endpoint_prefix,
      endpoint_name |-> EndpointName(endpoint_prefix, model_id, model_version),
      step |-> "model_uri" ]

\* deploy_model is active: called by main for either model, or called directly
InDeploy == pc \in { "in_llm", "in_embed", "in_call" }

\* an exception of this kind is raised inside the try block: an except clause
\* takes it and deploy_model returns None, or none does and it leaves
\* deploy_model and its caller, which has no handler
Raised(kind) ==
    IF Handler(kind) = "propagate"
    THEN /\ pc' = "crashed"
         /\ exit_code' = EXIT_UNCAUGHT
         /\ frame' = [frame EXCEPT !.step = "raised"]
         /\ ret' = ret
    ELSE /\ pc' = pc
         /\ exit_code' = exit_code
         /\ frame' = [frame EXCEPT !.step = "return"]
         /\ ret' = None

\* a step of the try block that only calls out: it goes on to the next step
\* or raises
Proceeds(out, next_step) ==
    IF out = "ok"
    THEN /\ frame' = [frame EXCEPT !.step = next_step]
         /\ UNCHANGED <<pc, exit_code, ret>>
    ELSE Raised(out)

ModelUriRetrieve ==
    /\ InDeploy
    /\ frame.step = "model_uri"
    /\ \E out \in Outcomes :
         /\ calls' = Append(calls, Call("model_uris.retrieve", frame.model_id,
                                        frame.model_version, out))
         /\ Proceeds(out, "image_uri")
    /\ UNCHANGED <<region, llm_version, embed_version, llm_endpoint, embed_endpoint,
                   endpoints, summary, live>>

ImageUriRetrieve ==
    /\ InDeploy
    /\ frame.step = "image_uri"
    /\ \E out \in Outcomes :
         /\ calls' = Append(calls, Call("image_uris.retrieve", frame.model_id,
                                        frame.model_version, out))
         /\ Proceeds(out, "model")
    /\ UNCHANGED <<region, llm_version, embed_version, llm_endpoint, embed_endpoint,
                   endpoints, summary, live>>

ModelConstruct ==
    /\ InDeploy
    /\ frame.step = "model"
    /\ \E out \in Outcomes :
         /\ calls' = Append(calls, Call("Model", frame.model_id,
                                        frame.model_version, out))
         /\ Proceeds(out, "deploy")
    /\ UNCHANGED <<region, llm_version, embed_version, llm_endpoint, embed_endpoint,
                   endpoints, summary, live>>

\* as ModelDeploy, with wait=False: the call returns before the platform has
\* reported the endpoint in service
ModelDeployNoWait ==
    /\ InDeploy
    /\ frame.step = "deploy"
    /\ \E out \in Outcomes :
         /\ calls' = Append(calls, Call("model.deploy", frame.model_id,
                                        frame.endpoint_name, out))
         /\ live' = live
         /\ Proceeds(out, "delete_model")
    /\ UNCHANGED <<region, llm_version, embed_version, llm_endpoint, embed_endpoint,
                   endpoints, summary>>

\* model.deploy(..., endpoint_name=endpoint_name, wait=True): it returns once
\* the platform reports the endpoint in service
ModelDeploy ==
    /\ InDeploy
    /\ frame.step = "deploy"
    /\ \E out \in Outcomes :
         /\ calls' = Append(calls, Call("model.deploy", frame.model_id,
                                        frame.endpoint_name, out))
         /\ live' = IF out = "ok" THEN live \cup { frame.endpoint_name } ELSE live
         /\ Proceeds(out, "delete_model")
    /\ UNCHANGED <<region, llm_version, embed_version, llm_endpoint, embed_endpoint,
                   endpoints, summary>>

\* predictor.delete_model() and, when it returns, return EndpointInfo(...)
DeleteModel ==
    /\ InDeploy
    /\ frame.step = "delete_model"
    /\ \E out \in Outcomes :
         /\ calls' = Append(calls, Call("predictor.delete_model", frame.model_id,
                                        frame.endpoint_name, out))
         /\ IF out = "ok"
            THEN /\ ret' = Some(EndpointInfo(frame.model_id, frame.model_version,
                                             frame.endpoint_name, frame.instance_type,
                                             region))
                 /\ frame' = [frame EXCEPT !.step = "return"]
                 /\ UNCHANGED <<pc, exit_code>>
            ELSE Raised(out)
    /\ UNCHANGED <<region, llm_version, embed_version, llm_endpoint, embed_endpoint,
                   endpoints, summary, live>>

-----------------------------------------------------------------------------
(* main, from the first deploy_model call on *)

CallDeployLlm ==
    /\ pc = "deploy_llm"
    /\ frame' = Enter(NEMOTRON_MODEL_ID, llm_version, LLM_INSTANCE, LLM_PREFIX)
    /\ pc' = "in_llm"
    /\ UNCHANGED <<region, llm_version, embed_version, ret, llm_endpoint,
                   embed_endpoint, endpoints, summary, exit_code, calls, live>>

\* as ReturnLlm, giving up on the second model when the first failed
ReturnLlmStopOnFailure ==
    /\ pc = "in_llm"
    /\ frame.step = "return"
    /\ llm_endpoint' = ret
    /\ endpoints' = IF Truthy(ret) THEN Append(endpoints, ret[1]) ELSE endpoints
    /\ frame' = Idle
    /\ pc' = IF Truthy(ret) THEN "deploy_embed" ELSE "summarize"
    /\ UNCHANGED <<region, llm_version, embed_version, ret, embed_endpoint,
                   summary, exit_code, calls, live>>

\* llm_endpoint = deploy_model(...); if llm_endpoint: endpoints.append(llm_endpoint)
ReturnLlm ==
    /\ pc = "in_llm"
    /\ frame.step = "return"
    /\ llm_endpoint' = ret
    /\ endpoints' = IF Truthy(ret) THEN Append(endpoints, ret[1]) ELSE endpoints
    /\ frame' = Idle
    /\ pc' = "deploy_embed"
    /\ UNCHANGED <<region, llm_version, embed_version, ret, embed_endpoint,
                   summary, exit_code, calls, live>>

\* as CallDeployEmbed, with the arguments of the first call left in place
CallDeployEmbedCopied ==
    /\ pc = "deploy_embed"
    /\ frame' = Enter(NEMOTRON_MODEL_ID, llm_version, LLM_INSTANCE, LLM_PREFIX)
    /\ pc' = "in_embed"
    /\ UNCHANGED <<region, llm_version, embed_version, ret, llm_endpoint,
                   embed_endpoint, endpoints, summary, exit_code, calls, live>>

CallDeployEmbed ==
    /\ pc = "deploy_embed"
    /\ frame' = Enter(EMBED_MODEL_ID, embed_version, EMBED_INSTANCE, EMBED_PREFIX)
    /\ pc' = "in_embed"
    /\ UNCHANGED <<region, llm_version, embed_version, ret, llm_endpoint,
                   embed_endpoint, endpoints, summary, exit_code, calls, live>>

\* embed_endpoint = deploy_model(...); if embed_endpoint: endpoints.append(embed_endpoint)
ReturnEmbed ==
    /\ pc = "in_embed"
    /\ frame.step = "return"
    /\ embed_endpoint' = ret
    /\ endpoints' = IF Truthy(ret) THEN Append(endpoints, ret[1]) ELSE endpoints
    /\ frame' = Idle
    /\ pc' = "summarize"
    /\ UNCHANGED <<region, llm_version, embed_version, ret, llm_endpoint,
                   summary, exit_code, calls, live>>

\* if not endpoints: print the failure and return; the script then ends
\* normally
SummarizeFailed ==
    /\ pc = "summarize"
    /\ endpoints = << >>
    /\ pc' = "done"
    /\ exit_code' = EXIT_OK
    /\ UNCHANGED <<region, llm_version, embed_version, frame, ret, llm_endpoint,
                   embed_endpoint, endpoints, summary, calls, live>>

\* as WriteSummary, without the test for an empty list before it
WriteSummaryUnguarded ==
    /\ pc = "summarize"
    /\ summary' = Append(summary, DumpList(endpoints))
    /\ pc' = "done"
    /\ exit_code' = EXIT_OK
    /\ UNCHANGED <<region, llm_version, embed_version, frame, ret, llm_endpoint,
                   embed_endpoint, endpoints, calls, live>>

\* open(summary_path, "w") and json.dump of the records' attributes; the
\* script then ends normally
WriteSummary ==
    /\ pc = "summarize"
    /\ endpoints # << >>
    /\ summary' = Append(summary, DumpList(endpoints))
    /\ pc' = "done"
    /\ exit_code' = EXIT_OK
    /\ UNCHANGED <<region, llm_version, embed_version, frame, ret, llm_endpoint,
                   embed_endpoint, endpoints, calls, live>>

Next ==
    \/ ResolveLlm
    \/ ResolveEmbed
    \/ CallDeployLlm
    \/ ModelUriRetrieve
    \/ ImageUriRetrieve
    \/ ModelConstruct
    \/ ModelDeploy
    \/ DeleteModel
    \/ ReturnLlm
    \/ CallDeployEmbed
    \/ ReturnEmbed
    \/ SummarizeFailed
    \/ WriteSummary

Spec == Init /\ [][Next]_vars

-----------------------------------------------------------------------------
(* deploy_model called on its own, with arguments drawn from bounded sets *)

ArgPrefixes == { LLM_PREFIX, EMBED_PREFIX, "my_team_nim" }

ArgModelIds == { NEMOTRON_MODEL_ID, EMBED_MODEL_ID, "acme_corp_text_embedding_model_v2" }

ArgInstances == { LLM_INSTANCE, EMBED_INSTANCE }

InitDeploy ==
    /\ pc = "in_call"
    /\ region \in Regions
    /\ llm_version = ""
    /\ embed_version = ""
    /\ \E p \in ArgPrefixes, m \in ArgModelIds, v \in Versions, t \in ArgInstances :
         frame = Enter(m, v, t, p)
    /\ ret = None
    /\ llm_endpoint = None
    /\ embed_endpoint = None
    /\ endpoints = << >>
    /\ summary = << >>
    /\ exit_code = Running
    /\ calls = << >>
    /\ live = {}

NextDeploy ==
    \/ ModelUriRetrieve
    \/ ImageUriRetrieve
    \/ ModelConstruct
    \/ ModelDeploy
    \/ DeleteModel

SpecDeploy == InitDeploy /\ [][NextDeploy]_vars

-----------------------------------------------------------------------------
(* Vocabulary of the properties *)

\* the external calls deploy_model makes inside its try block
DeployOps ==
    { "model_uris.retrieve", "image_uris.retrieve", "Model", "model.deploy",
      "predictor.delete_model" }

CallIndexes == 1..Len(calls)

\* some call of deploy_model for this model raised
FaultedIn(model_id) ==
    \E i \in CallIndexes :
        calls[i].model_id = model_id /\ calls[i].op \in DeployOps /\ calls[i].out # "ok"

\* the call op was issued for this model and returned
Returned(op, model_id) ==
    \E i \in CallIndexes :
        calls[i].model_id = model_id /\ calls[i].op = op /\ calls[i].out = "ok"

\* deploy_model was entered for this model and issued its first call
Attempted(model_id) ==
    \E i \in CallIndexes :
        calls[i].model_id = model_id /\ calls[i].op = "model_uris.retrieve"

\* every call of deploy_model for this model returned
RanThrough(model_id) == \A op \in DeployOps : Returned(op, model_id)

HasUnderscore(s) == \E i \in 1..Len(s) : SubSeq(s, i, i) = "_"

\* name is, character by character, the first AWS_NAME_LIMIT characters of
\* prefix-model_id-version with "-" where that has "_"
IsNormalizedPrefixOf(name, prefix, model_id, version) ==
    LET raw == prefix \o "-" \o model_id \o "-" \o version
    IN  /\ Len(name) = Min(AWS_NAME_LIMIT, Len(raw))
        /\ \A i \in 1..Len(name) :
             SubSeq(name, i, i) =
                 IF SubSeq(raw, i, i) = "_" THEN "-" ELSE SubSeq(raw, i, i)

MainModels == { NEMOTRON_MODEL_ID, EMBED_MODEL_ID }

-----------------------------------------------------------------------------
\* C1: whenever an external call inside deploy_model (artifact-URI lookup,
\* image-URI lookup, model construction, deployment submission, release of
\* the model handle) raises, deploy_model does not raise: the process has not
\* ended with an uncaught exception, the call returns None (right after the
\* fault deploy_model is at its return with None as its value), and once main
\* has taken the return value the local it is bound to is None.
C1_DeployFaultsNeverPropagate ==
    /\ (\E m \in MainModels : FaultedIn(m)) =>
           /\ pc # "crashed"
           /\ exit_code # EXIT_UNCAUGHT
    /\ (InDeploy /\ calls # << >> /\ calls[Len(calls)].op \in DeployOps
            /\ calls[Len(calls)].model_id = frame.model_id
            /\ calls[Len(calls)].out # "ok") =>
           /\ frame.step = "return"
           /\ ret = None
    /\ (FaultedIn(NEMOTRON_MODEL_ID) /\ pc \notin { "in_llm" }) => llm_endpoint = None
    /\ (FaultedIn(EMBED_MODEL_ID) /\ pc \notin { "in_embed" }) => embed_endpoint = None

\* the reasoning model's deployment raised an exception that is not a
\* ClientError, and main went on to deploy the embedding model
C1_Witness ==
    /\ \E i \in CallIndexes :
         calls[i].model_id = NEMOTRON_MODEL_ID /\ calls[i].out = "ValueError"
    /\ pc = "in_embed"
    /\ llm_endpoint = None

-----------------------------------------------------------------------------
\* C2: at the end of a run in which the deployment of exactly one of the two
\* models failed, the other model's deployment was attempted and the result
\* list holds exactly one record, that of the model that did not fail.
C2_OneFailureKeepsTheOther ==
    \A failed \in MainModels :
        LET other == CHOOSE m \in MainModels : m # failed
        IN  (pc \in { "summarize", "done" } /\ FaultedIn(failed) /\ ~FaultedIn(other)) =>
                /\ Attempted(failed)
                /\ Attempted(other)
                /\ Len(endpoints) = 1
                /\ endpoints[1].model_id = other
                /\ endpoints[1] \in { r[1] : r \in { llm_endpoint, embed_endpoint } \ { None } }

\* the reasoning model failed, the embedding model was deployed, the run ended
C2_Witness ==
    /\ pc = "done"
    /\ FaultedIn(NEMOTRON_MODEL_ID)
    /\ ~FaultedIn(EMBED_MODEL_ID)
    /\ Len(endpoints) = 1

-----------------------------------------------------------------------------
\* C3: nim_endpoints.json is written at most once; while no deploy_model call
\* has run through to its record it is not written; it is written only with a
\* non-empty result list; and a run that ends after the summarize step with a
\* non-empty result list has written it exactly once.
C3_SummaryIffSuccess ==
    /\ Len(summary) <= 1
    /\ (\A m \in MainModels : ~RanThrough(m)) => summary = << >>
    /\ summary # << >> => endpoints # << >>
    /\ (pc = "done" /\ endpoints # << >>) => Len(summary) = 1
    /\ (pc = "done" /\ endpoints = << >>) => summary = << >>

\* a run ended with one endpoint deployed and the file written once
C3_Witness ==
    /\ pc = "done"
    /\ Len(endpoints) = 1
    /\ Len(summary) = 1

-----------------------------------------------------------------------------
\* C4: a run that ends with an empty result list ends with a non-zero process
\* outcome.
C4_EmptyRunExitsNonZero ==
    (pc = "done" /\ endpoints = << >>) => exit_code # EXIT_OK

-----------------------------------------------------------------------------
\* C5: every EndpointInfo there is (returned by deploy_model, bound in main,
\* in the result list, or written to the summary) names an endpoint the
\* platform reported live, of a model whose two URI lookups and deployment
\* submission returned.
RecordIsConfirmed(r) ==
    /\ r.endpoint_name \in live
    /\ Returned("model_uris.retrieve", r.model_id)
    /\ Returned("image_uris.retrieve", r.model_id)
    /\ \E i \in CallIndexes :
         /\ calls[i].op = "model.deploy"
         /\ calls[i].out = "ok"
         /\ calls[i].model_id = r.model_id
         /\ calls[i].arg = r.endpoint_name

C5_RecordsOnlyForLiveEndpoints ==
    /\ \A opt \in { ret, llm_endpoint, embed_endpoint } :
         opt # None => RecordIsConfirmed(opt[1])
    /\ \A i \in 1..Len(endpoints) : RecordIsConfirmed(endpoints[i])
    /\ \A w \in 1..Len(summary) : \A i \in 1..Len(summary[w]) :
         RecordIsConfirmed(summary[w][i])

\* the summary was written with a record in it
C5_Witness ==
    /\ summary # << >>
    /\ Len(summary[1]) >= 1
    /\ summary[1][1].endpoint_name \in live

-----------------------------------------------------------------------------
\* C6: for the arguments (prefix, model id, version) of a deploy_model call,
\* the endpoint name has at most 63 characters, none of them an underscore,
\* and is the first 63 characters of prefix-modelId-version with every
\* underscore replaced by a hyphen; the name sent with the deployment
\* submission and the name stored in the returned record are this name.
C6_EndpointNameNormalized ==
    frame.step # "idle" =>
        /\ Len(frame.endpoint_name) <= AWS_NAME_LIMIT
        /\ ~HasUnderscore(frame.endpoint_name)
        /\ IsNormalizedPrefixOf(frame.endpoint_name, frame.endpoint_prefix,
                                frame.model_id, frame.model_version)
        /\ \A i \in CallIndexes :
             (calls[i].op = "model.deploy" /\ calls[i].model_id = frame.model_id) =>
                 /\ calls[i].arg = frame.endpoint_name
                 /\ IsNormalizedPrefixOf(calls[i].arg, frame.endpoint_prefix,
                                         frame.model_id, frame.model_version)
        /\ (frame.step = "return" /\ ret # None) =>
                 /\ ret[1].endpoint_name = frame.endpoint_name
                 /\ IsNormalizedPrefixOf(ret[1].endpoint_name, frame.endpoint_prefix,
                                         frame.model_id, frame.model_version)

\* a record was returned for arguments whose joined form has underscores and
\* more than 63 characters
C6_Witness ==
    /\ frame.step = "return"
    /\ ret # None
    /\ HasUnderscore(frame.endpoint_prefix)
    /\ HasUnderscore(frame.model_id)
    /\ HasUnderscore(frame.model_version)
    /\ Len(frame.endpoint_prefix) + Len(frame.model_id) + Len(frame.model_version) + 2
           > AWS_NAME_LIMIT
    /\ Len(ret[1].endpoint_name) = AWS_NAME_LIMIT

-----------------------------------------------------------------------------
\* C7: when the summary is written its entries are the records of the
\* deploy_model calls that returned a record, one each, the reasoning model's
\* before the embedding model's; an entry has the five stored attributes
\* (model id, version, endpoint name, instance type, region) and no other.
SucceededInOrder ==
    (IF RanThrough(NEMOTRON_MODEL_ID) THEN << NEMOTRON_MODEL_ID >> ELSE << >>)
        \o (IF RanThrough(EMBED_MODEL_ID) THEN << EMBED_MODEL_ID >> ELSE << >>)

EntryIsFor(entry, model_id) ==
    /\ DOMAIN entry = { "model_id", "model_version", "endpoint_name",
                        "instance_type", "region" }
    /\ entry.model_id = model_id
    /\ entry.model_version =
           (IF model_id = NEMOTRON_MODEL_ID THEN llm_version ELSE embed_version)
    /\ entry.instance_type =
           (IF model_id = NEMOTRON_MODEL_ID THEN LLM_INSTANCE ELSE EMBED_INSTANCE)
    /\ entry.region = region
    /\ \E i \in CallIndexes :
         /\ calls[i].op = "model.deploy"
         /\ calls[i].model_id = model_id
         /\ calls[i].arg = entry.endpoint_name

C7_SummaryIsSuccessesInOrder ==
    \A w \in 1..Len(summary) :
        /\ Len(summary[w]) = Len(SucceededInOrder)
        /\ \A i \in 1..Len(summary[w]) : EntryIsFor(summary[w][i], SucceededInOrder[i])

\* both deployments succeeded and the summary was written
C7_Witness ==
    /\ pc = "done"
    /\ Len(summary) = 1
    /\ Len(summary[1]) = 2
    /\ summary[1][1].model_id = NEMOTRON_MODEL_ID
    /\ summary[1][2].model_id = EMBED_MODEL_ID

-----------------------------------------------------------------------------
\* C8: every deployment step (artifact-URI lookup, image-URI lookup, ...) is
\* issued after both version resolutions have returned, the reasoning model's
\* first; and when a version resolution raises, for either model, the run
\* ends there: no deployment step has been or will be issued and no summary
\* is written.
ResolutionFailed ==
    \E i \in CallIndexes : calls[i].op = "get_model_specs" /\ calls[i].out # "ok"

C8_ResolutionFirstAndFatal ==
    /\ \A i \in CallIndexes :
         calls[i].op # "get_model_specs" =>
             /\ i > 2
             /\ calls[1] = Call("get_model_specs", NEMOTRON_MODEL_ID, region, "ok")
             /\ calls[2] = Call("get_model_specs", EMBED_MODEL_ID, region, "ok")
    /\ (frame # Idle) =>
             (Returned("get_model_specs", NEMOTRON_MODEL_ID)
                 /\ Returned("get_model_specs", EMBED_MODEL_ID))
    /\ ResolutionFailed =>
             /\ pc = "crashed"
             /\ exit_code = EXIT_UNCAUGHT
             /\ \A i \in CallIndexes : calls[i].op = "get_model_specs"
             /\ frame = Idle
             /\ endpoints = << >>
             /\ summary = << >>

\* the second resolution raised after the first had returned
C8_Witness ==
    /\ Len(calls) = 2
    /\ calls[1].out = "ok"
    /\ calls[2].op = "get_model_specs"
    /\ calls[2].model_id = EMBED_MODEL_ID
    /\ calls[2].out # "ok"
    /\ pc = "crashed"

-----------------------------------------------------------------------------
\* C9: once main has taken the return values of deploy_model, every endpoint
\* the platform reported live has a record in the result list.
C9_LiveEndpointsAreRecorded ==
    pc \in { "summarize", "done" } =>
        \A n \in live : \E i \in 1..Len(endpoints) : endpoints[i].endpoint_name = n

-----------------------------------------------------------------------------
\* C10: the endpoint names of the two deployment attempts of a run differ,
\* whatever the two resolved versions: the name the embedding model's
\* deployment is about to submit is not that of an endpoint already live, and
\* the names submitted for the two models are different.
C10_DistinctEndpointNames ==
    /\ (pc = "in_embed" /\ frame.step \in { "model_uri", "image_uri", "model", "deploy" }) =>
           /\ frame.endpoint_name \notin live
           /\ \A i \in CallIndexes :
                calls[i].op = "model.deploy" => calls[i].arg # frame.endpoint_name
    /\ \A i, j \in CallIndexes :
         (i < j /\ calls[i].op = "model.deploy" /\ calls[j].op = "model.deploy") =>
             calls[i].arg # calls[j].arg

\* both deployments were submitted with the same long version, so that both
\* names are truncated
C10_Witness ==
    /\ llm_version = embed_version
    /\ Len(llm_version) > 20
    /\ Returned("model.deploy", NEMOTRON_MODEL_ID)
    /\ Returned("model.deploy", EMBED_MODEL_ID)

=============================================================================
